---- MODULE Spec2Model ----
(***************************************************************************)
(* Model of commands/command_pre_push.go: the Git pre-push hook of Git LFS. *)
(* prePushCommand decodes the ref line on stdin, scans for LFS pointers,    *)
(* checks locally-missing objects against the server, then uploads.        *)
(* Strings that the code parses are sequences of one-character strings.    *)
(***************************************************************************)
EXTENDS Integers, Sequences, FiniteSets, TLC

(* ---------------- bounds of the model ---------------- *)
MaxPointers == 2
MaxTokens == 5
MaxInFlight == 1
MaxChecksInFlight == 2

(* ---------------- program constants ---------------- *)
prePushDeleteBranch == <<"(", "d", "e", "l", "e", "t", "e", ")">>

\* os.Exit(2): one or more uploads failed
ExitUploadFailed == 2
ExitNoArgsMut == ExitUploadFailed
\* os.Exit(1): no hook arguments
ExitNoArgs == 1
\* status of a plain return from the command
ExitReturn == 0
\* status with which the Panic / Exit helpers end the process
ExitFatal == 2
\* no status yet: the process is still running
Running == 0 - 1

(* ---------------- strings ---------------- *)
\* unicode.IsSpace on the characters of the model's alphabet
IsSpace(c) == c \in {" ", "\t", "\n", "\r"}

RECURSIVE TrimLeft(_)
TrimLeft(s) ==
  IF s = <<>> THEN <<>>
  ELSE IF IsSpace(Head(s)) THEN TrimLeft(Tail(s)) ELSE s

RECURSIVE TrimRight(_)
TrimRight(s) ==
  IF s = <<>> THEN <<>>
  ELSE IF IsSpace(s[Len(s)]) THEN TrimRight(SubSeq(s, 1, Len(s) - 1)) ELSE s

\* strings.TrimSpace
TrimSpace(s) == TrimRight(TrimLeft(s))

\* strings.Split(s, " "): the fields between the separators; never empty
RECURSIVE SplitAcc(_, _, _)
SplitAcc(s, cur, acc) ==
  IF s = <<>> THEN Append(acc, cur)
  ELSE IF Head(s) = " " THEN SplitAcc(Tail(s), <<>>, Append(acc, cur))
  ELSE SplitAcc(Tail(s), Append(cur, Head(s)), acc)

Split(s) == SplitAcc(s, <<>>, <<>>)

\* index (0-based, as in the code) of the token that is the local endpoint
LeftIndex == 1
RightIndex == 3

decodeRefsMut(input) ==
  LET refs == Split(input)
      left == IF Len(refs) > 1 THEN refs[LeftIndex + 1] ELSE <<>>
      right == IF Len(refs) > 3 THEN <<"^">> \o refs[RightIndex + 1] ELSE <<>>
  IN <<left, right>>

\* decodeRefs pulls the sha1s out of the line read from the hook's stdin
decodeRefs(input) ==
  LET refs == Split(TrimSpace(input))
      left == IF Len(refs) > 1 THEN refs[LeftIndex + 1] ELSE <<>>
      right == IF Len(refs) > 3 THEN <<"^">> \o refs[RightIndex + 1] ELSE <<>>
  IN <<left, right>>

IsDeleteBranchMut(l) == l = <<"d", "e", "l", "e", "t", "e">>

\* left == prePushDeleteBranch
IsDeleteBranch(l) == l = prePushDeleteBranch

(* ---------------- inputs ---------------- *)
RECURSIVE Join(_, _)
Join(toks, sep) ==
  IF toks = <<>> THEN <<>>
  ELSE IF Len(toks) = 1 THEN toks[1]
  ELSE toks[1] \o sep \o Join(Tail(toks), sep)

\* whitespace-free, non-empty tokens
Tokens == {prePushDeleteBranch, <<"a">>, <<"b", "c">>}

RECURSIVE SeqsUpTo(_, _)
SeqsUpTo(S, n) ==
  IF n = 0 THEN {<<>>}
  ELSE LET prev == SeqsUpTo(S, n - 1)
       IN prev \cup {Append(q, x) : q \in {p \in prev : Len(p) = n - 1}, x \in S}

Pads == {<<>>, <<"\n">>, <<" ">>}
Seps == {<<" ">>, <<" ", " ">>, <<"\t">>}

\* the bytes of a ref line: its tokens joined by the separator, inside the padding
Render(line) == line.lead \o Join(line.toks, line.sep) \o line.trail

\* every line the decoder is applied to
DecodeLines ==
  [toks : SeqsUpTo(Tokens, MaxTokens), sep : Seps, lead : Pads, trail : Pads]

\* a line as Git writes it: four tokens, single spaces, a final newline
GitLine(t) == [toks |-> t, sep |-> <<" ">>, lead |-> <<>>, trail |-> <<"\n">>]

\* the lines the hook is run with: nothing, a line whose local ref is the
\* sentinel, a line whose local sha1 is the sentinel, an ordinary push
RefLines ==
  {[toks |-> <<>>, sep |-> <<" ">>, lead |-> <<>>, trail |-> <<>>],
   GitLine(<<prePushDeleteBranch, <<"a">>, <<"b", "c">>, <<"a">>>>),
   GitLine(<<<<"a">>, prePushDeleteBranch, <<"b", "c">>, <<"a">>>>),
   GitLine(<<<<"b", "c">>, <<"a">>, <<"b", "c">>, <<"a">>>>)}

ArgsInputs == {<<>>, <<"origin", "url">>}

\* sample values: two oids tell equal from different oids, two sizes tell a
\* copy of the exact size from a copy of another size
Oids == {"o1", "o2"}
Sizes == {1, 2}
\* the path of the file that points to (oid, size)
NameOf(oid, size) == <<"file", oid, size>>
\* lfs.WrappedPointer: the fields the command reads
PointerUniverse == {[Oid |-> o, Name |-> NameOf(o, s), Size |-> s] : o \in Oids, s \in Sizes}
PointerLists == SeqsUpTo(PointerUniverse, MaxPointers)

(* ---------------- state ---------------- *)
VARIABLES
  refLine,          \* the ref line Git writes to the hook (tokens, separator, padding)
  args,             \* command-line arguments of the hook
  stdin,            \* the bytes on os.Stdin
  prePushDryRun,    \* --dry-run flag
  Debugging,        \* global verbosity toggle of the commands package
  localStore,       \* (oid, size) pairs present in .git/lfs/objects
  pc,               \* position of the main goroutine
  exitStatus,       \* process exit status, Running until the process ends
  fatal,            \* the process was ended by the Panic / Exit helpers
  CurrentRemote,    \* lfs.Config.CurrentRemote
  stdinRead,        \* ioutil.ReadAll(os.Stdin) was called
  left, right,      \* result of decodeRefs
  scanned,          \* lfs.ScanRefs was called
  pointers,         \* result of lfs.ScanRefs
  totalSize,        \* sum of the pointers' sizes
  skipObjects,      \* skip-set returned by prePushCheckForMissingObjects
  skipNil,          \* skipObjects is the nil map
  checkErr,         \* error returned by prePushCheckForMissingObjects (lines)
  checkReturned,    \* prePushCheckForMissingObjects has returned
  missingLocalObjects, \* indices of the pointers that failed the local check
  missingSize,
  localSkip,        \* the local skipObjects map inside the pre-flight check
  checkQueue,       \* lfs check queue
  uploadQueue,      \* lfs upload queue
  ci,               \* index of the next missing object to add to the check queue
  ui,               \* index of the pointer the upload loop is at
  constructed,      \* pointers for which lfs.NewUploadable was called
  wErr,             \* the error lfs.NewUploadable returned, NoError if none
  out               \* messages printed, in order

vars == <<refLine, args, stdin, prePushDryRun, Debugging, localStore, pc, exitStatus,
          fatal, CurrentRemote, stdinRead, left, right, scanned, pointers,
          totalSize, skipObjects, skipNil, checkErr, checkReturned,
          missingLocalObjects, missingSize, localSkip, checkQueue,
          uploadQueue, ci, ui, constructed, wErr, out>>

env == <<refLine, args, stdin, prePushDryRun, Debugging, localStore>>
decoded == <<left, right>>
scan == <<scanned, pointers, totalSize>>
preflight == <<skipObjects, skipNil, checkErr, checkReturned, missingLocalObjects,
               missingSize, localSkip, checkQueue, ci>>
upload == <<uploadQueue, ui, constructed, wErr>>

\* the upload pool accepts a job only while fewer than MaxInFlight of its jobs are unfinished
PoolSaturated(q) == Cardinality(q.jobs \ q.finished) >= MaxInFlight

\* the check pool is sized on its own (by the missing objects' count and size)
CheckPoolSaturated(q) == Cardinality(q.jobs \ q.finished) >= MaxChecksInFlight

\* Wait() returns only when every job added to the queue has finished
PoolDrained(q) == q.jobs \subseteq q.finished

\* wErr == nil
NoError == [cause |-> "nil"]

NoQueue == [created |-> FALSE, count |-> 0, size |-> 0, dryRun |-> FALSE,
            jobs |-> {}, finished |-> {}, errors |-> <<>>]

Range(f) == {f[i] : i \in DOMAIN f}

\* lfs.ObjectExistsOfSize(oid, size)
ObjectExistsOfSize(oid, size) == <<oid, size>> \in localStore

\* the test of the local existence filter
IsMissing(p) == ~ObjectExistsOfSize(p.Oid, p.Size)

\* totalSize += p.Size, over the pointers in order
RECURSIVE TotalSize(_)
TotalSize(ptrs) ==
  IF ptrs = <<>> THEN 0 ELSE TotalSize(SubSeq(ptrs, 1, Len(ptrs) - 1)) + ptrs[Len(ptrs)].Size

RECURSIVE MissingFromMut(_, _)
MissingFromMut(ptrs, i) ==
  IF i >= Len(ptrs) THEN <<>>
  ELSE IF ~ObjectExistsOfSize(ptrs[i].Oid, ptrs[i].Size) THEN <<i>> \o MissingFromMut(ptrs, i + 1)
  ELSE MissingFromMut(ptrs, i + 1)

\* the indices of the pointers that fail the local check, in order
RECURSIVE MissingFrom(_, _)
MissingFrom(ptrs, i) ==
  IF i > Len(ptrs) THEN <<>>
  ELSE IF IsMissing(ptrs[i]) THEN <<i>> \o MissingFrom(ptrs, i + 1)
  ELSE MissingFrom(ptrs, i + 1)

RECURSIVE MissingSizeOf(_, _)
MissingSizeOf(ptrs, idx) ==
  IF idx = <<>> THEN 0 ELSE ptrs[Head(idx)].Size + MissingSizeOf(ptrs, Tail(idx))

\* the process ends: os.Exit or return from the command
Terminate(status, isFatal) ==
  /\ pc' = "done"
  /\ exitStatus' = status
  /\ fatal' = isFatal

\* Panic(err, ...) and Exit(...): print, then end the process
Abort(msg) ==
  /\ Terminate(ExitFatal, TRUE)
  /\ out' = Append(out, msg)

\* the state of a run that has not done anything yet
Fresh ==
  /\ exitStatus = Running
  /\ fatal = FALSE
  /\ left = <<>>
  /\ right = <<>>
  /\ scanned = FALSE
  /\ pointers = <<>>
  /\ totalSize = 0
  /\ skipObjects = {}
  /\ skipNil = TRUE
  /\ checkErr = <<>>
  /\ checkReturned = FALSE
  /\ missingLocalObjects = <<>>
  /\ missingSize = 0
  /\ localSkip = {}
  /\ checkQueue = NoQueue
  /\ uploadQueue = NoQueue
  /\ ci = 1
  /\ ui = 1
  /\ constructed = {}
  /\ wErr = NoError
  /\ out = <<>>

Init ==
  /\ refLine \in RefLines
  /\ stdin = Render(refLine)
  /\ args \in ArgsInputs
  /\ prePushDryRun \in BOOLEAN
  /\ Debugging \in BOOLEAN
  /\ localStore \in SUBSET (Oids \X Sizes)
  /\ pc = "start"
  /\ CurrentRemote = ""
  /\ stdinRead = FALSE
  /\ Fresh

\* the decoder alone: any line of DecodeLines, about to be decoded
InitDecode ==
  /\ refLine \in DecodeLines
  /\ stdin = Render(refLine)
  /\ args = <<"origin", "url">>
  /\ prePushDryRun = FALSE
  /\ Debugging = FALSE
  /\ localStore = {}
  /\ pc = "decode"
  /\ CurrentRemote = "origin"
  /\ stdinRead = TRUE
  /\ Fresh

(* ---------------- prePushCommand ---------------- *)
\* len(args) == 0: print the advice and os.Exit(1); else set the remote
CheckArgs ==
  /\ pc = "start"
  /\ IF Len(args) = 0
       THEN /\ out' = Append(out, [kind |-> "advice"])
            /\ Terminate(ExitNoArgs, FALSE)
            /\ UNCHANGED CurrentRemote
       ELSE /\ CurrentRemote' = args[1]
            /\ pc' = "readStdin"
            /\ UNCHANGED <<out, exitStatus, fatal>>
  /\ UNCHANGED <<env, stdinRead, decoded, scan, preflight, upload>>

\* ioutil.ReadAll(os.Stdin); a read error panics; empty input returns
ReadStdin ==
  /\ pc = "readStdin"
  /\ stdinRead' = TRUE
  /\ \E err \in BOOLEAN :
       IF err
         THEN Abort([kind |-> "panic", text |-> "Error reading refs on stdin"])
         ELSE IF Len(stdin) = 0
           THEN Terminate(ExitReturn, FALSE) /\ UNCHANGED out
           ELSE pc' = "decode" /\ UNCHANGED <<out, exitStatus, fatal>>
  /\ UNCHANGED <<env, CurrentRemote, decoded, scan, preflight, upload>>

\* left, right = decodeRefs(...); a deleted branch returns
DecodeRefs ==
  /\ pc = "decode"
  /\ left' = decodeRefs(stdin)[1]
  /\ right' = decodeRefs(stdin)[2]
  /\ IF IsDeleteBranch(left')
       THEN Terminate(ExitReturn, FALSE)
       ELSE pc' = "scan" /\ UNCHANGED <<exitStatus, fatal>>
  /\ UNCHANGED <<env, CurrentRemote, stdinRead, scan, preflight, upload, out>>

\* lfs.ScanRefs(left, right, nil); an error panics
ScanRefs ==
  /\ pc = "scan"
  /\ scanned' = TRUE
  /\ \/ /\ Abort([kind |-> "panic", text |-> "Error scanning for Git LFS files"])
        /\ UNCHANGED <<pointers>>
     \/ /\ pointers' \in PointerLists
        /\ pc' = "total"
        /\ UNCHANGED <<out, exitStatus, fatal>>
  /\ UNCHANGED <<env, CurrentRemote, stdinRead, decoded, totalSize, preflight, upload>>

RunsPreflightMut == TRUE

\* if !prePushDryRun: the pre-flight check runs
RunsPreflight == ~prePushDryRun

\* totalSize := sum of p.Size; then the pre-flight check unless dry-run
SumSizes ==
  /\ pc = "total"
  /\ totalSize' = TotalSize(pointers)
  /\ pc' = IF RunsPreflight THEN "filter" ELSE "newUploadQueue"
  /\ UNCHANGED <<env, exitStatus, fatal, CurrentRemote, stdinRead, decoded,
                 scanned, pointers, preflight, upload, out>>

(* ---------------- prePushCheckForMissingObjects ---------------- *)
NothingMissingMut(missing) == FALSE

\* len(missingLocalObjects) == 0
NothingMissing(missing) == Len(missing) = 0

SkipKeysMut(ptrs, missing) == {ptrs[i].Oid : i \in 1..Len(ptrs)}

\* skipObjects[pointer.Oid] = struct{}{} for every missing pointer
SkipKeys(ptrs, missing) == {ptrs[i].Oid : i \in Range(missing)}

\* the local existence loop; no missing object returns (nil, nil)
LocalFilter ==
  /\ pc = "filter"
  /\ missingLocalObjects' = MissingFrom(pointers, 1)
  /\ missingSize' = MissingSizeOf(pointers, missingLocalObjects')
  /\ localSkip' = SkipKeys(pointers, missingLocalObjects')
  /\ IF NothingMissing(missingLocalObjects')
       THEN /\ skipObjects' = {}
            /\ skipNil' = TRUE
            /\ checkErr' = <<>>
            /\ checkReturned' = TRUE
            /\ pc' = "newUploadQueue"
       ELSE /\ pc' = "newCheckQueue"
            /\ UNCHANGED <<skipObjects, skipNil, checkErr, checkReturned>>
  /\ UNCHANGED <<env, exitStatus, fatal, CurrentRemote, stdinRead, decoded, scan,
                 checkQueue, ci, upload, out>>

\* lfs.NewCheckQueue(len(missingLocalObjects), missingSize, false)
NewCheckQueue ==
  /\ pc = "newCheckQueue"
  /\ checkQueue' = [NoQueue EXCEPT !.created = TRUE,
                                   !.count = Len(missingLocalObjects),
                                   !.size = missingSize,
                                   !.dryRun = FALSE]
  /\ ci' = 1
  /\ pc' = "checkAdd"
  /\ UNCHANGED <<env, exitStatus, fatal, CurrentRemote, stdinRead, decoded, scan,
                 skipObjects, skipNil, checkErr, checkReturned, missingLocalObjects,
                 missingSize, localSkip, upload, out>>

\* checkQueue.Add(lfs.NewCheckable(p)) for the next missing object
CheckAdd ==
  /\ pc = "checkAdd"
  /\ IF ci > Len(missingLocalObjects)
       THEN pc' = "checkWait" /\ UNCHANGED <<checkQueue, ci>>
       ELSE /\ ~CheckPoolSaturated(checkQueue)
            /\ checkQueue' = [checkQueue EXCEPT !.jobs = @ \cup {missingLocalObjects[ci]}]
            /\ ci' = ci + 1
            /\ UNCHANGED pc
  /\ UNCHANGED <<env, exitStatus, fatal, CurrentRemote, stdinRead, decoded, scan,
                 skipObjects, skipNil, checkErr, checkReturned, missingLocalObjects,
                 missingSize, localSkip, upload, out>>

\* a worker of the check pool finishes a job, with or without an error
CheckJobFinish ==
  /\ pc # "done"
  /\ \E i \in checkQueue.jobs \ checkQueue.finished :
       \E ok \in BOOLEAN :
         checkQueue' = [checkQueue EXCEPT
            !.finished = @ \cup {i},
            !.errors = IF ok THEN @
                       ELSE Append(@, [job |-> i, oid |-> pointers[i].Oid,
                                       name |-> pointers[i].Name])]
  /\ UNCHANGED <<env, pc, exitStatus, fatal, CurrentRemote, stdinRead, decoded, scan,
                 skipObjects, skipNil, checkErr, checkReturned, missingLocalObjects,
                 missingSize, localSkip, ci, upload, out>>

MissingLineMut(name, oid) == [template |-> "prePushMissingErrMsg", name |-> oid, oid |-> name]

\* one line of the combined message: the template with (name, oid)
MissingLine(name, oid) == [template |-> "prePushMissingErrMsg", name |-> name, oid |-> oid]

HasCheckErrorsMut(errors) == Len(errors) > 1

\* len(checkQueue.Errors()) > 0
HasCheckErrors(errors) == Len(errors) > 0

WaitsForChecksMut == TRUE

WaitsForFirstCheckMut == checkQueue.finished # {}

\* checkQueue.Wait()
WaitsForChecks == PoolDrained(checkQueue)

\* checkQueue.Wait(); collate the errors; return (nil, err) or (skipObjects, nil)
CheckWait ==
  /\ pc = "checkWait"
  /\ WaitsForChecks
  /\ IF HasCheckErrors(checkQueue.errors)
       THEN /\ checkErr' = [k \in 1..Len(checkQueue.errors) |->
                              MissingLine(checkQueue.errors[k].name, checkQueue.errors[k].oid)]
            /\ skipObjects' = {}
            /\ skipNil' = TRUE
       ELSE /\ checkErr' = <<>>
            /\ skipObjects' = localSkip
            /\ skipNil' = FALSE
  /\ checkReturned' = TRUE
  /\ pc' = "checkReturn"
  /\ UNCHANGED <<env, exitStatus, fatal, CurrentRemote, stdinRead, decoded, scan,
                 missingLocalObjects, missingSize, localSkip, checkQueue, ci, upload, out>>

\* back in prePushCommand: an error from the pre-flight check panics
CheckReturn ==
  /\ pc = "checkReturn"
  /\ IF checkErr # <<>>
       THEN Abort([kind |-> "panic", text |-> "Missing objects to push", detail |-> checkErr])
       ELSE pc' = "newUploadQueue" /\ UNCHANGED <<out, exitStatus, fatal>>
  /\ UNCHANGED <<env, CurrentRemote, stdinRead, decoded, scan, preflight, upload>>

(* ---------------- the upload stage ---------------- *)
\* lfs.NewUploadQueue(len(pointers), totalSize, prePushDryRun)
NewUploadQueue ==
  /\ pc = "newUploadQueue"
  /\ uploadQueue' = [NoQueue EXCEPT !.created = TRUE,
                                    !.count = Len(pointers),
                                    !.size = totalSize,
                                    !.dryRun = prePushDryRun]
  /\ ui' = 1
  /\ pc' = "loop"
  /\ UNCHANGED <<env, exitStatus, fatal, CurrentRemote, stdinRead, decoded, scan,
                 preflight, constructed, wErr, out>>

InSkipSetMut(p) == p.Name \in skipObjects

\* _, skip := skipObjects[pointer.Oid]; a nil map has no keys
InSkipSet(p) == p.Oid \in skipObjects

\* the failures lfs.NewUploadable can return: the cause, the fatal mark, and
\* for a CleanedPointerError the oid of the pointer it carries
UploadableErrors == [cause : {"CleanedPointerError", "other"}, Panic : BOOLEAN, Oid : Oids]

ConstructionAbortMut(pointer, e) ==
  IF Debugging \/ e.Panic
    THEN Abort([kind |-> "panic", text |-> "wErr.Error()", job |-> ui])
    ELSE IF e.cause = "CleanedPointerError"
      THEN Abort([kind |-> "exit", text |-> MissingLine(pointer.Name, e.Oid)])
      ELSE Abort([kind |-> "exit", text |-> "wErr.Error()", job |-> ui])

\* the branch taken for a failed job construction
ConstructionAbort(pointer, e) ==
  IF e.cause = "CleanedPointerError"
    THEN Abort([kind |-> "exit", text |-> MissingLine(pointer.Name, e.Oid)])
    ELSE IF Debugging \/ e.Panic
      THEN Abort([kind |-> "panic", text |-> "wErr.Error()", job |-> ui])
      ELSE Abort([kind |-> "exit", text |-> "wErr.Error()", job |-> ui])

\* the end of the range loop: dry-run returns, otherwise wait for the uploads
LoopEnd ==
  /\ pc = "loop"
  /\ ui > Len(pointers)
  /\ IF prePushDryRun
       THEN Terminate(ExitReturn, FALSE)
       ELSE pc' = "uploadWait" /\ UNCHANGED <<exitStatus, fatal>>
  /\ UNCHANGED <<env, CurrentRemote, stdinRead, decoded, scan, preflight, upload, out>>

\* dry-run: Print("push %s", pointer.Name); continue
LoopDryRun ==
  /\ pc = "loop"
  /\ ui <= Len(pointers)
  /\ prePushDryRun
  /\ out' = Append(out, [kind |-> "push", name |-> pointers[ui].Name])
  /\ ui' = ui + 1
  /\ UNCHANGED <<env, pc, exitStatus, fatal, CurrentRemote, stdinRead, decoded, scan,
                 preflight, uploadQueue, constructed, wErr>>

\* object missing locally but on server: continue
LoopSkip ==
  /\ pc = "loop"
  /\ ui <= Len(pointers)
  /\ ~prePushDryRun
  /\ InSkipSet(pointers[ui])
  /\ ui' = ui + 1
  /\ UNCHANGED <<env, pc, exitStatus, fatal, CurrentRemote, stdinRead, decoded, scan,
                 preflight, uploadQueue, constructed, wErr, out>>

\* lfs.NewUploadable(pointer.Oid, pointer.Name): a job, or an error that ends the run
NewUploadable ==
  /\ pc = "loop"
  /\ ui <= Len(pointers)
  /\ ~prePushDryRun
  /\ ~InSkipSet(pointers[ui])
  /\ constructed' = constructed \cup {ui}
  /\ \/ /\ pc' = "uploadAdd"
        /\ UNCHANGED <<exitStatus, fatal, out, wErr>>
     \/ \E e \in UploadableErrors :
          /\ wErr' = e
          /\ ConstructionAbort(pointers[ui], e)
  /\ UNCHANGED <<env, CurrentRemote, stdinRead, decoded, scan, preflight,
                 uploadQueue, ui>>

\* uploadQueue.Add(u): blocks while the pool is saturated
UploadAdd ==
  /\ pc = "uploadAdd"
  /\ ~PoolSaturated(uploadQueue)
  /\ uploadQueue' = [uploadQueue EXCEPT !.jobs = @ \cup {ui}]
  /\ ui' = ui + 1
  /\ pc' = "loop"
  /\ UNCHANGED <<env, exitStatus, fatal, CurrentRemote, stdinRead, decoded, scan,
                 preflight, constructed, wErr, out>>

\* a worker of the upload pool finishes a job, with or without an error
UploadJobFinish ==
  /\ pc # "done"
  /\ \E i \in uploadQueue.jobs \ uploadQueue.finished :
       \E res \in {"ok", "error", "panic"} :
         uploadQueue' = [uploadQueue EXCEPT
            !.finished = @ \cup {i},
            !.errors = IF res = "ok" THEN @
                       ELSE Append(@, [job |-> i, Panic |-> (res = "panic")])]
  /\ UNCHANGED <<env, pc, exitStatus, fatal, CurrentRemote, stdinRead, decoded, scan,
                 preflight, ui, constructed, wErr, out>>

WaitsForUploadsMut == TRUE

WaitsForCountMut == Cardinality(uploadQueue.finished) = uploadQueue.count

\* uploadQueue.Wait()
WaitsForUploads == PoolDrained(uploadQueue)

\* uploadQueue.Wait(): returns when every job added has finished
UploadWait ==
  /\ pc = "uploadWait"
  /\ WaitsForUploads
  /\ pc' = "report"
  /\ UNCHANGED <<env, exitStatus, fatal, CurrentRemote, stdinRead, decoded, scan,
                 preflight, uploadQueue, ui, constructed, wErr, out>>

\* LoggedError(err.Err, err.Error()) or Error(err.Error()) for one upload error
ReportLine(err) ==
  [kind |-> IF Debugging \/ err.Panic THEN "LoggedError" ELSE "Error", job |-> err.job]

UploadExitStatusMut(errors) == IF Len(errors) > 1 THEN ExitUploadFailed ELSE ExitReturn

\* the status decided from the upload errors
UploadExitStatus(errors) == IF Len(errors) > 0 THEN ExitUploadFailed ELSE ExitReturn

\* the range over uploadQueue.Errors() reports every error; then
\* len(uploadQueue.Errors()) > 0: os.Exit(2); else return
ReportAndExit ==
  /\ pc = "report"
  /\ out' = out \o [k \in 1..Len(uploadQueue.errors) |-> ReportLine(uploadQueue.errors[k])]
  /\ Terminate(UploadExitStatus(uploadQueue.errors), FALSE)
  /\ UNCHANGED <<env, CurrentRemote, stdinRead, decoded, scan, preflight, upload>>

Next ==
  \/ CheckArgs
  \/ ReadStdin
  \/ DecodeRefs
  \/ ScanRefs
  \/ SumSizes
  \/ LocalFilter
  \/ NewCheckQueue
  \/ CheckAdd
  \/ CheckJobFinish
  \/ CheckWait
  \/ CheckReturn
  \/ NewUploadQueue
  \/ LoopEnd
  \/ LoopDryRun
  \/ LoopSkip
  \/ NewUploadable
  \/ UploadAdd
  \/ UploadJobFinish
  \/ UploadWait
  \/ ReportAndExit

Spec == Init /\ [][Next]_vars

\* the steps of the main flow of prePushCommand, which runs without pause
\* whenever it is not blocked in Add or Wait
Main ==
  \/ CheckArgs \/ ReadStdin \/ DecodeRefs \/ ScanRefs \/ SumSizes
  \/ LocalFilter \/ NewCheckQueue \/ CheckAdd \/ CheckWait \/ CheckReturn
  \/ NewUploadQueue \/ LoopEnd \/ LoopDryRun \/ LoopSkip \/ NewUploadable
  \/ UploadAdd \/ UploadWait \/ ReportAndExit

\* every job that was submitted eventually completes or fails, and the main
\* flow takes its next step whenever it can
Fairness ==
  /\ WF_vars(Main)
  /\ WF_vars(CheckJobFinish)
  /\ WF_vars(UploadJobFinish)

SpecLive == Init /\ [][Next]_vars /\ Fairness

\* the decoder applied to every line of DecodeLines
NextDecode == DecodeRefs

SpecDecode == InitDecode /\ [][NextDecode]_vars

TypeOK ==
  /\ pc \in {"start", "readStdin", "decode", "scan", "total", "filter", "newCheckQueue",
             "checkAdd", "checkWait", "checkReturn", "newUploadQueue", "loop",
             "uploadAdd", "uploadWait", "report", "done"}
  /\ exitStatus \in {Running, ExitReturn, ExitNoArgs, ExitUploadFailed, ExitFatal}
  /\ pointers \in PointerLists
  /\ wErr \in UploadableErrors \cup {NoError}

(* ---------------- properties ---------------- *)
Indices == 1..Len(pointers)

\* the pointers that have no local copy of their exact size
MissingIndices == {i \in Indices : <<pointers[i].Oid, pointers[i].Size>> \notin localStore}

\* the sum of the sizes of the pointers at the indices S
RECURSIVE SizeOfIndices(_)
SizeOfIndices(S) ==
  IF S = {} THEN 0
  ELSE LET i == CHOOSE j \in S : TRUE IN pointers[i].Size + SizeOfIndices(S \ {i})

PushMessages == SelectSeq(out, LAMBDA m : m.kind = "push")

\* C1: fail closed. In a run that is not a dry-run, once an existence-check job
\* has reported a failure, no upload job is constructed or submitted, the run
\* never enters the upload stage, and the only way it ends is the fatal abort.
FailClosed ==
  (~prePushDryRun /\ Len(checkQueue.errors) > 0) =>
     /\ uploadQueue.jobs = {}
     /\ constructed = {}
     /\ ~uploadQueue.created
     /\ pc \in {"checkAdd", "checkWait", "checkReturn", "done"}
     /\ (pc = "done" => fatal)

\* a check job failed and the run was aborted
FailClosedWitness ==
  /\ ~prePushDryRun
  /\ Len(checkQueue.errors) > 0
  /\ Cardinality(checkQueue.finished) > Len(checkQueue.errors)
  /\ pc = "done"
  /\ fatal

\* C2: when the pre-flight check returned a skip-set (every check job
\* succeeded), no locally-missing pointer is constructed or submitted as an
\* upload job, and the total size given to the upload queue counts every
\* pointer's size once, the skipped ones included.
SkippedNeverUploaded ==
  (checkReturned /\ ~skipNil) =>
     /\ \A i \in MissingIndices : i \notin uploadQueue.jobs /\ i \notin constructed
     /\ uploadQueue.created =>
          uploadQueue.size = SizeOfIndices(MissingIndices) + SizeOfIndices(Indices \ MissingIndices)

\* a run that skipped one pointer and uploaded another
SkippedNeverUploadedWitness ==
  /\ checkReturned
  /\ ~skipNil
  /\ MissingIndices # {}
  /\ uploadQueue.jobs # {}
  /\ pc = "done"

\* C3: in dry-run mode no check queue and no check job is created, no upload
\* job is constructed or submitted, the local store is never modified, and a
\* run that went through the pointers printed one "push" message per pointer.
DryRunNoSideEffects ==
  /\ [](prePushDryRun =>
          /\ ~checkQueue.created
          /\ checkQueue.jobs = {}
          /\ constructed = {}
          /\ uploadQueue.jobs = {}
          /\ (pc = "done" /\ scanned /\ ~fatal) =>
                /\ Len(PushMessages) = Len(pointers)
                /\ \A k \in Indices : PushMessages[k].name = pointers[k].Name)
  /\ [][prePushDryRun => localStore' = localStore]_vars

\* a dry run over several pointers, one of them missing locally, has ended
DryRunWitness ==
  /\ prePushDryRun
  /\ pc = "done"
  /\ Len(pointers) >= 2
  /\ MissingIndices # {}
  /\ Len(PushMessages) = Len(pointers)

\* C4 as stated: in a dry-run push with a locally-missing pointer, a real check
\* job has been submitted for every locally-missing pointer when the upload
\* stage begins.
DryRunStillChecks ==
  (prePushDryRun /\ uploadQueue.created /\ MissingIndices # {}) =>
     /\ checkQueue.created
     /\ ~checkQueue.dryRun
     /\ MissingIndices \subseteq checkQueue.jobs

\* C4 amended: when the upload stage begins, a run that is not a dry-run has
\* submitted one real check job per locally-missing pointer, all finished and
\* to a queue created with the dry-run flag false; a dry-run has submitted none.
ChecksUnlessDryRun ==
  uploadQueue.created =>
     IF prePushDryRun
       THEN checkQueue.jobs = {} /\ ~checkQueue.created
       ELSE /\ checkQueue.jobs = MissingIndices
            /\ checkQueue.jobs \subseteq checkQueue.finished
            /\ MissingIndices # {} => (checkQueue.created /\ ~checkQueue.dryRun
                                        /\ checkQueue.count = Cardinality(MissingIndices))

\* the upload stage began after two check jobs
ChecksUnlessDryRunWitness ==
  /\ ~prePushDryRun
  /\ uploadQueue.created
  /\ Cardinality(MissingIndices) >= 2
  /\ checkQueue.jobs = MissingIndices

\* C5: when every pointer has a local copy of its exact size, the check queue
\* is never created, no check job is submitted, and the pre-flight check
\* returns the empty (nil) skip-set and no error.
AllPresentNoCheck ==
  (pc \notin {"start", "readStdin", "decode", "scan"} /\ scanned /\ ~fatal /\ MissingIndices = {}) =>
     /\ ~checkQueue.created
     /\ checkQueue.jobs = {}
     /\ checkReturned => (skipObjects = {} /\ skipNil /\ checkErr = <<>>)
     /\ pc \notin {"newCheckQueue", "checkAdd", "checkWait", "checkReturn"}

\* the pre-flight check has returned for pointers that are all present locally
AllPresentWitness ==
  /\ ~prePushDryRun
  /\ Len(pointers) >= 2
  /\ MissingIndices = {}
  /\ checkReturned
  /\ uploadQueue.jobs # {}

\* C6: when the decoded local endpoint is the deletion sentinel, the run has
\* ended at once with status 0: the scanner was not called and no queue, check
\* job or upload job exists.
DeleteBranchSkipsAll ==
  (left = prePushDeleteBranch) =>
     /\ pc = "done"
     /\ exitStatus = 0
     /\ ~fatal
     /\ ~scanned
     /\ checkQueue = NoQueue
     /\ uploadQueue = NoQueue
     /\ constructed = {}
     /\ out = <<>>

\* the token at index 1 was the sentinel and the run has returned
DeleteBranchWitness ==
  /\ refLine.toks # <<>>
  /\ Len(refLine.toks) > 1
  /\ refLine.toks[2] = prePushDeleteBranch
  /\ left = prePushDeleteBranch
  /\ pc = "done"

\* C7: when the first token of the line on stdin is the deletion sentinel, the
\* run is a no-op: no upload job is constructed or submitted, and a run that
\* ends without a fatal abort ends with status 0.
FirstTokenDeleteIsNoOp ==
  (refLine.toks # <<>> /\ refLine.toks[1] = prePushDeleteBranch) =>
     /\ constructed = {}
     /\ uploadQueue.jobs = {}
     /\ (pc = "done" /\ ~fatal /\ Len(args) > 0) => exitStatus = 0

\* C8: decodeRefs. For a line of exactly four tokens separated by single
\* spaces the result is (tokens[1], "^" + tokens[3]); for the empty line it is
\* ("", ""); with fewer than two tokens the local endpoint is empty; with two
\* or three tokens the remote endpoint is empty.
DecodeRefsContract ==
  (pc # "decode" /\ refLine.sep = <<" ">>) =>
     /\ Len(refLine.toks) = 4 =>
          (left = refLine.toks[2] /\ right = <<"^">> \o refLine.toks[4])
     /\ stdin = <<>> => (left = <<>> /\ right = <<>>)
     /\ Len(refLine.toks) < 2 => left = <<>>
     /\ Len(refLine.toks) \in {2, 3} => (left = refLine.toks[2] /\ right = <<>>)

\* a padded four-token line has been decoded
DecodeRefsWitness ==
  /\ pc # "decode"
  /\ refLine.sep = <<" ">>
  /\ Len(refLine.toks) = 4
  /\ refLine.trail = <<"\n">>
  /\ refLine.toks[2] # refLine.toks[4]
  /\ left = refLine.toks[2]
  /\ right = <<"^">> \o refLine.toks[4]

ReportedLines == SelectSeq(out, LAMBDA m : m.kind \in {"LoggedError", "Error"})

\* C9: a run that is not a dry-run and ends after the upload stage without a
\* fatal abort has an outcome for every upload job it submitted, has reported
\* every collected upload error exactly once, in the order collected, and ends
\* with status 2 if and only if an upload error was collected, otherwise 0.
UploadErrorsNonAborting ==
  (~prePushDryRun /\ pc = "done" /\ ~fatal /\ uploadQueue.created) =>
     /\ uploadQueue.jobs \subseteq uploadQueue.finished
     /\ {uploadQueue.errors[k].job : k \in DOMAIN uploadQueue.errors} \subseteq uploadQueue.jobs
     /\ Len(ReportedLines) = Len(uploadQueue.errors)
     /\ \A k \in DOMAIN uploadQueue.errors : ReportedLines[k].job = uploadQueue.errors[k].job
     /\ exitStatus = 2 <=> Len(uploadQueue.errors) > 0
     /\ exitStatus = 0 <=> Len(uploadQueue.errors) = 0

\* one upload failed, a sibling submitted after it succeeded, the run ended
UploadErrorsWitness ==
  /\ ~prePushDryRun
  /\ pc = "done"
  /\ ~fatal
  /\ Len(uploadQueue.errors) = 1
  /\ Cardinality(uploadQueue.finished) >= 2
  /\ \E j \in uploadQueue.finished : j > uploadQueue.errors[1].job
  /\ exitStatus = 2

\* the run ended after reading stdin without scanning: empty input or a deleted branch
NoOpRun == stdinRead /\ ~scanned /\ ~fatal

\* C10: a run ends with status 1 exactly when it was given no hook arguments,
\* and then it has only printed the advice: stdin unread, remote unset, scanner
\* not called, no queue or job created. No-op runs, dry-runs that ran to the end
\* and upload runs without errors end with 0; a run with an upload error ends with 2.
ExitStatusContract ==
  pc = "done" =>
     /\ exitStatus = 1 <=> Len(args) = 0
     /\ Len(args) = 0 =>
          /\ ~stdinRead
          /\ CurrentRemote = ""
          /\ ~scanned
          /\ checkQueue = NoQueue
          /\ uploadQueue = NoQueue
          /\ constructed = {}
          /\ out = <<[kind |-> "advice"]>>
     /\ NoOpRun => exitStatus = 0
     /\ (prePushDryRun /\ Len(args) > 0 /\ ~fatal) => exitStatus = 0
     /\ (uploadQueue.created /\ ~fatal /\ Len(uploadQueue.errors) = 0) => exitStatus = 0
     /\ Len(uploadQueue.errors) > 0 => exitStatus = 2

\* the hook was run without arguments and has exited
ExitStatusWitness ==
  /\ pc = "done"
  /\ Len(args) = 0
  /\ exitStatus = 1
  /\ refLine.toks # <<>>

\* the check jobs that reported a failure
FailedChecks == {checkQueue.errors[k].job : k \in 1..Len(checkQueue.errors)}

\* C11: when the reconciliation has returned an error, its message has exactly
\* one line per failed check job: the lines are in one-to-one correspondence
\* with the failed jobs, the line of a failed job is the fixed template filled
\* with the name and the oid of that job's pointer, and no line stems from a
\* job that finished without error.
AggregateErrorLines ==
  (checkReturned /\ Len(checkErr) > 0) =>
     /\ Len(checkErr) = Cardinality(FailedChecks)
     /\ \A k \in 1..Len(checkErr) :
          LET job == checkQueue.errors[k].job IN
            /\ job \in checkQueue.finished
            /\ checkErr[k] = [template |-> "prePushMissingErrMsg",
                              name |-> pointers[job].Name,
                              oid |-> pointers[job].Oid]
     /\ \A i \in checkQueue.finished \ FailedChecks :
          \A k \in 1..Len(checkErr) : checkQueue.errors[k].job # i
     /\ \A i \in FailedChecks :
          Cardinality({k \in 1..Len(checkErr) : checkQueue.errors[k].job = i}) = 1

\* the reconciliation failed with one check job failed and another succeeded,
\* and the aggregate message went out with the abort
AggregateErrorLinesWitness ==
  /\ pc = "done"
  /\ fatal
  /\ Len(checkErr) = 1
  /\ Cardinality(checkQueue.finished) = 2
  /\ \E k \in 1..Len(out) : out[k].kind = "panic" /\ out[k].text = "Missing objects to push"
                            /\ out[k].detail = checkErr

\* C12: when lfs.NewUploadable fails for a pointer after upload jobs of earlier
\* pointers were submitted, no job is submitted for that or any later pointer,
\* and when the process has ended every upload job that was submitted has
\* finished (the upload pool was drained before the exit).
ConstructionFailureDrainsPool ==
  (pc = "done" /\ wErr # NoError /\ uploadQueue.jobs # {}) =>
     /\ uploadQueue.jobs \subseteq 1..(ui - 1)
     /\ constructed \subseteq 1..ui
     /\ uploadQueue.jobs \subseteq uploadQueue.finished

\* C13: the stages do not overlap. Whenever the upload queue exists, or an
\* upload job has been constructed or submitted, no existence-check job is
\* outstanding: every check job that was submitted has finished.
ChecksDrainedBeforeUploads ==
  (uploadQueue.created \/ constructed # {} \/ uploadQueue.jobs # {}) =>
     \A i \in checkQueue.jobs : i \in checkQueue.finished

\* a check job was run and finished, and an upload job was submitted afterwards
ChecksDrainedBeforeUploadsWitness ==
  /\ checkQueue.jobs # {}
  /\ checkQueue.finished = checkQueue.jobs
  /\ uploadQueue.jobs # {}

\* the upload jobs that reported a failure
FailedUploads == {uploadQueue.errors[k].job : k \in 1..Len(uploadQueue.errors)}

\* C14: the exit status that derives from uploads is decided on a drained pool.
\* When the error list is inspected, and when a run that got that far has
\* ended, every upload job that was submitted has finished and has contributed
\* exactly one outcome: success, or one element of the error list.
ExitDecidedAfterDrain ==
  (~prePushDryRun /\ (pc = "report" \/ (pc = "done" /\ ~fatal /\ uploadQueue.created))) =>
     /\ \A i \in uploadQueue.jobs : i \in uploadQueue.finished
     /\ FailedUploads \subseteq uploadQueue.jobs
     /\ \A i \in uploadQueue.jobs :
          Cardinality({k \in 1..Len(uploadQueue.errors) : uploadQueue.errors[k].job = i}) <= 1
     /\ Len(uploadQueue.errors) = Cardinality(FailedUploads)
     /\ (pc = "done" => exitStatus = IF FailedUploads # {} THEN 2 ELSE 0)

\* the error list is about to be inspected: two upload jobs were submitted, one
\* failed and one succeeded
ExitDecidedAfterDrainWitness ==
  /\ pc = "report"
  /\ Cardinality(uploadQueue.jobs) = 2
  /\ Cardinality(FailedUploads) = 1

\* C15: a failed lfs.NewUploadable is classified and ends the run. A
\* CleanedPointerError always gives the plain exit with the fixed missing-object
\* template, filled with the pointer's name and the oid carried by the error,
\* whatever the debugging mode and the error's fatal mark; any other error gives
\* the full diagnostics when debugging is on or the error is marked fatal, and
\* the summary message otherwise. In all three cases the run is over with
\* status 2, the failing pointer's job was never added, and no later pointer
\* was processed.
ConstructionFailureClassified ==
  wErr # NoError =>
     /\ pc = "done" /\ fatal /\ exitStatus = 2
     /\ Len(out) > 0
     /\ LET m == out[Len(out)] IN
          IF wErr.cause = "CleanedPointerError"
            THEN m = [kind |-> "exit",
                      text |-> [template |-> "prePushMissingErrMsg",
                                name |-> pointers[ui].Name,
                                oid |-> wErr.Oid]]
            ELSE IF Debugging \/ wErr.Panic
              THEN m = [kind |-> "panic", text |-> "wErr.Error()", job |-> ui]
              ELSE m = [kind |-> "exit", text |-> "wErr.Error()", job |-> ui]
     /\ ui \notin uploadQueue.jobs
     /\ \A i \in Indices : i > ui => (i \notin constructed /\ i \notin uploadQueue.jobs)

\* a CleanedPointerError that is marked fatal, met in debugging mode on a
\* pointer that is not the last one
ConstructionFailureWitness ==
  /\ wErr # NoError
  /\ wErr.cause = "CleanedPointerError"
  /\ wErr.Panic
  /\ Debugging
  /\ ui < Len(pointers)
  /\ pc = "done"

\* C16: whenever the reconciliation has returned a skip-set that is not nil,
\* every oid in it is the oid of a pointer that failed the local existence check
\* and whose check job finished without error; and once the reconciliation has
\* returned, or the upload queue exists, no step changes the skip-set.
SkipSetInvariant ==
  /\ []((checkReturned /\ ~skipNil) =>
          \A o \in skipObjects :
            \E i \in MissingIndices :
              /\ pointers[i].Oid = o
              /\ i \in checkQueue.finished
              /\ i \notin FailedChecks)
  /\ [][(checkReturned \/ uploadQueue.created) =>
          (skipObjects' = skipObjects /\ skipNil' = skipNil)]_vars

\* a skip-set of two oids was returned and the upload stage has run to its end
SkipSetWitness ==
  /\ checkReturned
  /\ ~skipNil
  /\ Cardinality(skipObjects) = 2
  /\ uploadQueue.created
  /\ pc = "done"

\* the pointers that are present locally and share their oid with no pointer
\* that is missing locally
Unshadowed ==
  {i \in Indices \ MissingIndices :
     \A j \in MissingIndices : pointers[j].Oid # pointers[i].Oid}

\* C17 as stated: in a run that is not a dry-run, passed the reconciliation and
\* had every job construction succeed, every pointer that passed the local
\* existence check was submitted to the upload queue, also when a pointer of the
\* same oid and another size is missing locally.
PresentPointersUploaded ==
  (~prePushDryRun /\ pc = "done" /\ ~fatal /\ uploadQueue.created) =>
     \A i \in Indices \ MissingIndices :
       i \in constructed /\ i \in uploadQueue.jobs

\* C17: in a run that is not a dry-run, passed the reconciliation and had every
\* job construction succeed, a pointer that passed the local existence check
\* was submitted to the upload queue, once, exactly when no locally missing
\* pointer has its oid; a present pointer whose oid is also the oid of a missing
\* pointer is skipped with it, because the skip-set is keyed by oid alone.
PresentPointersUploadedUnlessShadowed ==
  (~prePushDryRun /\ pc = "done" /\ ~fatal /\ uploadQueue.created) =>
     /\ \A i \in Indices \ MissingIndices :
          /\ i \in uploadQueue.jobs <=> i \in Unshadowed
          /\ i \in constructed <=> i \in Unshadowed
     /\ Cardinality(uploadQueue.jobs) = Cardinality(Unshadowed)
     /\ uploadQueue.finished = uploadQueue.jobs

\* such a run with a present pointer and a missing pointer of the same oid and
\* another size: the present one was not uploaded
ShadowedPointerWitness ==
  /\ ~prePushDryRun /\ pc = "done" /\ ~fatal /\ uploadQueue.created
  /\ \E i \in Indices \ MissingIndices :
       /\ \E j \in MissingIndices :
            pointers[j].Oid = pointers[i].Oid /\ pointers[j].Size # pointers[i].Size
       /\ i \notin uploadQueue.jobs

\* lfs.ScanRefs returned an error
ScanFailed ==
  \E k \in 1..Len(out) :
    out[k].kind = "panic" /\ out[k].text = "Error scanning for Git LFS files"

\* What a run must show at its end, computed from its inputs (the dry-run flag,
\* the pointer list, the local store) and from the results of its jobs (the
\* sets of failed check and upload jobs, the pointer whose construction
\* failed), none of which records an order of completion.
ExpectedCheckJobs == IF prePushDryRun THEN {} ELSE MissingIndices

ExpectedSkipSet ==
  IF prePushDryRun \/ FailedChecks # {}
    THEN {}
    ELSE {pointers[i].Oid : i \in MissingIndices}

ExpectedCandidates ==
  IF ~prePushDryRun /\ FailedChecks # {}
    THEN {}
    ELSE {i \in Indices : pointers[i].Oid \notin ExpectedSkipSet}

ExpectedUploadJobs ==
  IF prePushDryRun THEN {}
  ELSE IF wErr # NoError THEN {i \in ExpectedCandidates : i < ui}
  ELSE ExpectedCandidates

ExpectedExitStatus ==
  IF ~prePushDryRun /\ (FailedChecks # {} \/ wErr # NoError) THEN 2
  ELSE IF FailedUploads # {} THEN 2
  ELSE 0

Termination == <>(pc = "done")

\* the main flow is blocked in uploadQueue.Add on a saturated pool while a
\* later pointer is still to be submitted
BlockedInAddWitness ==
  /\ pc = "uploadAdd"
  /\ PoolSaturated(uploadQueue)
  /\ ui \notin uploadQueue.jobs

====
